---- MODULE Spec2Model ----
(***************************************************************************)
(* A model of pilco/models/pilco.py: the PILCO object (controller          *)
(* parameters, dynamics-model parameters, optimizer handle), the rollout   *)
(* loop of predict/propagate, optimize and restart_controller.             *)
(*                                                                         *)
(* Floating-point tensors are modelled by exact integer matrices: a matrix *)
(* is a sequence of rows, a 1 x d mean is <<row>>.  Random draws are       *)
(* nondeterministic choices from small sets.  The draw of np.random.rand   *)
(* is kept in hundredths (0.33 is 33, 0.67 is 67).                         *)
(***************************************************************************)
EXTENDS Integers, Sequences, FiniteSets, TLC

VARIABLES
    \* ---- fields of the PILCO object (pilco.py 16-46)
    controller,   \* self.controller: the parameters of its sub-models
    mgpr,         \* self.mgpr: the dynamics-model hyperparameter
    reward,       \* self.reward: the reward functional's parameters
    m_init,       \* self.m_init
    S_init,       \* self.S_init
    horizon,      \* self.horizon
    optimizer,    \* self.optimizer: None or the handle created by optimize
    \* ---- one activation of predict (pilco.py 96-115)
    p_pc,         \* "off" | "call" | "loop" | "done"
    p_n,          \* argument n
    p_j,          \* loop variable j
    p_m,          \* loop variable m_x
    p_s,          \* loop variable s_x
    p_reward,     \* loop variable reward
    p_m0,         \* argument m_x as passed
    p_s0,         \* argument s_x as passed
    p_in,         \* log: beliefs handed to propagate, in call order
    p_out,        \* log: beliefs returned by propagate, in call order
    p_rw,         \* log: beliefs handed to compute_reward, in call order
    \* ---- one activation of optimize (pilco.py 54-90)
    o_pc,         \* "off" | "gp" | "policy" | "report"
    o_maxiter,    \* argument maxiter
    o_ctrl0,      \* log: controller parameters when optimize was entered
    o_gp0,        \* log: dynamics-model parameter when optimize was entered
    \* ---- one activation of restart_controller (pilco.py 134-171)
    r_pc,         \* "off" | "draw" | "perturb" | "optimize" | "evaluate"
                  \* | "decide" | "decided" | "return" | "error"
    restarts,     \* argument restarts
    values,       \* local values: the snapshot
    old_reward,   \* local old_reward
    r,            \* loop variable r
    select,       \* local select
    mi,           \* position of the loop over self.controller.models
    new_reward,   \* local reward
    pre,          \* log: live parameters when the trial's perturbation began
    applied,      \* log: the strategy announced for each sub-model this trial
    draws,        \* log: number of uniform draws made this trial
    opt_calls,    \* log: optimizer invocations made this trial
    eval_calls,   \* log: objective evaluations made this trial (line 160)
    cmp_old,      \* log: old_reward as printed at line 161
    outcome,      \* log: "none" | "accepted" | "rejected" | "degenerate"
    acc_reward,   \* log: the reward computed in the last accepted trial
    trials_done,  \* log: number of trials completed in this activation
    entry,        \* log: the live parameters when restart_controller was entered
    ncalls,       \* number of public calls made on the object so far
    ntrials,      \* number of restart trials requested on the object so far
    \* ---- one activation of propagate on given collaborator outputs
    \* (pilco.py 117-132)
    pr_pc,        \* "off" | "call" | "done"
    pr_in,        \* arguments m_x, s_x and what the collaborators return
    pr_out        \* the returned <<M_x, S_x>>

vars == <<controller, mgpr, reward, m_init, S_init, horizon, optimizer,
          p_pc, p_n, p_j, p_m, p_s, p_reward, p_m0, p_s0, p_in, p_out, p_rw,
          o_pc, o_maxiter, o_ctrl0, o_gp0,
          r_pc, restarts, values, old_reward, r, select, mi, new_reward,
          pre, applied, draws, opt_calls, eval_calls, cmp_old, outcome,
          acc_reward, trials_done, entry, ncalls, ntrials,
          pr_in, pr_pc, pr_out>>

objVars == <<controller, mgpr, reward, m_init, S_init, horizon, optimizer>>
predictVars == <<p_pc, p_n, p_j, p_m, p_s, p_reward, p_m0, p_s0,
                 p_in, p_out, p_rw>>
optimizeVars == <<o_pc, o_maxiter, o_ctrl0, o_gp0>>
propagateVars == <<pr_pc, pr_in, pr_out>>
restartVars == <<r_pc, restarts, values, old_reward, r, select, mi,
                 new_reward, pre, applied, draws, opt_calls, eval_calls,
                 cmp_old, outcome, acc_reward, trials_done, entry>>

\* self.optimizer = None: no handle, or the handle with the maxiter it was made with
None == [created |-> FALSE, maxiter |-> 0]
Handle(k) == [created |-> TRUE, maxiter |-> k]

-----------------------------------------------------------------------------
(* Bounds of the model.                                                    *)

MaxHorizon == 3      \* largest horizon handed to predict
RolloutHorizon == 2  \* self.horizon of the instance that is optimized
MaxRestarts == 2     \* restart trials requested on one instance
MaxIter == 2         \* largest maxiter argument
MaxCalls == 2        \* public calls made on one instance

-----------------------------------------------------------------------------
(* Matrix arithmetic (tf.concat, tf.transpose, @, +).                      *)

Rows(A) == Len(A)
Cols(A) == Len(A[1])

\* a function on 1..n as a sequence in normal form
Seq1(f) == f \o <<>>

\* the element of a one-element set: {e(x) : x \in {v}} evaluates v once
Only(S) == CHOOSE y \in S : TRUE

RECURSIVE DotTo(_, _, _, _, _)
DotTo(A, B, i, jj, k) ==
    IF k = 0 THEN 0 ELSE DotTo(A, B, i, jj, k - 1) + A[i][k] * B[k][jj]

MatMul(A, B) ==
    Seq1([i \in 1..Rows(A) |->
            Seq1([jj \in 1..Cols(B) |-> DotTo(A, B, i, jj, Cols(A))])])

Transpose(A) ==
    Seq1([i \in 1..Cols(A) |-> Seq1([jj \in 1..Rows(A) |-> A[jj][i]])])

MatAdd(A, B) ==
    Seq1([i \in 1..Rows(A) |-> Seq1([jj \in 1..Cols(A) |-> A[i][jj] + B[i][jj]])])

ConcatCols(A, B) ==
    Seq1([i \in 1..Rows(A) |-> A[i] \o B[i]])

ConcatRows(A, B) == A \o B

RECURSIVE SumSeq(_)
SumSeq(q) == IF q = <<>> THEN 0 ELSE Head(q) + SumSeq(Tail(q))

Trace(A) == SumSeq(Seq1([i \in 1..Rows(A) |-> A[i][i]]))

-----------------------------------------------------------------------------
(* The three collaborators, by their contracts.  A controller is a         *)
(* sequence of sub-models [X, Y, ls], one per control dimension: X a       *)
(* centre in state space, Y a target, ls a lengthscale; the policy is the  *)
(* linear-Gaussian map u_i = ls_i * Y_i * sum_k (x_k - X_i[k]).            *)

Gain(c) == Seq1([i \in 1..Len(c) |-> c[i].ls * c[i].Y])

\* the state_dim x control_dim input-output matrix of the policy
PolicyMatrix(c, sd) ==
    Seq1([k \in 1..sd |-> Gain(c)])

\* controller.compute_action(m_x, s_x) -> <<m_u, s_u, c_xu>>
ComputeAction(c, m, s) ==
    LET sd == Cols(m)
        W == PolicyMatrix(c, sd)
        m_u == << Seq1([i \in 1..Len(c) |->
                     Gain(c)[i] * SumSeq(Seq1([k \in 1..sd |-> m[1][k] - c[i].X[k]]))]) >>
    IN  << m_u, MatMul(Transpose(W), MatMul(s, W)), W >>

\* the (state_dim + control_dim) x state_dim input-output matrix of the
\* dynamics model with hyperparameter g: delta_l = g * (x_l + sum_i u_i)
DynamicsMatrix(g, sd, cd) ==
    Seq1([k \in 1..(sd + cd) |->
            Seq1([l \in 1..sd |-> IF k = l \/ k > sd THEN g ELSE 0])])

\* mgpr.predict_on_noisy_inputs(m, s) -> <<M_dx, S_dx, C_dx>>
PredictOnNoisyInputs(g, sd, m, s) ==
    LET A == DynamicsMatrix(g, sd, Cols(m) - sd)
    IN  << MatMul(m, A), MatMul(Transpose(A), MatMul(s, A)), A >>

\* reward.compute_reward(m_x, s_x) -> <<expected reward, variance>>:
\* rw.c - rw.w * E[x x^T] for a Gaussian x
ComputeReward(rw, m, s) ==
    << rw.c - rw.w * (SumSeq(Seq1([k \in 1..Cols(m) |-> m[1][k] * m[1][k]])) + Trace(s)),
       0 >>

-----------------------------------------------------------------------------
(* propagate (pilco.py 117-132).                                           *)

\* lines 120-123: the joint state-action input <<m, s1, s>> built from the
\* belief and the policy's outputs act = <<m_u, s_u, c_xu>>
PropagateJoint(m_x, s_x, act) ==
    LET m_u == act[1]
        s_u == act[2]
        c_xu == act[3]
        m == ConcatCols(m_x, m_u)
        s1 == ConcatCols(s_x, MatMul(s_x, c_xu))
        s2 == ConcatCols(Transpose(MatMul(s_x, c_xu)), s_u)
        s == ConcatRows(s1, s2)
    IN  << m, s1, s >>

\* lines 126-128: the next belief <<M_x, S_x>> from the belief, s1 and the
\* dynamics model's outputs dyn = <<M_dx, S_dx, C_dx>>
PropagateUpdateNoCarry(m_x, s_x, s1, dyn) ==
    << dyn[1],
       MatAdd(MatAdd(MatAdd(dyn[2], s_x), MatMul(s1, dyn[3])),
              MatMul(Transpose(dyn[3]), Transpose(s1))) >>
PropagateUpdateNoTranspose(m_x, s_x, s1, dyn) ==
    << MatAdd(dyn[1], m_x),
       MatAdd(MatAdd(MatAdd(dyn[2], s_x), MatMul(s1, dyn[3])),
              MatMul(s1, dyn[3])) >>
PropagateUpdate(m_x, s_x, s1, dyn) ==
    LET M_dx == dyn[1]
        S_dx == dyn[2]
        C_dx == dyn[3]
        M_x == MatAdd(M_dx, m_x)
        S_x == MatAdd(MatAdd(MatAdd(S_dx, s_x), MatMul(s1, C_dx)),
                      MatMul(Transpose(C_dx), Transpose(s1)))
    IN  << M_x, S_x >>

Propagate(c, g, m_x, s_x) ==
    Only({ PropagateUpdate(m_x, s_x, jn[2],
                           PredictOnNoisyInputs(g, Cols(m_x), jn[1], jn[3])) :
             jn \in {PropagateJoint(m_x, s_x, ComputeAction(c, m_x, s_x))} })

\* propagate when the policy returns act and the dynamics model returns dyn
PropagateWith(m_x, s_x, act, dyn) ==
    PropagateUpdate(m_x, s_x, PropagateJoint(m_x, s_x, act)[2], dyn)

\* no activation of propagate
NoCall == [m_x |-> <<>>, s_x |-> <<>>, act |-> <<>>, dyn |-> <<>>]

\* propagate(m_x, s_x) runs on the outputs its collaborators return
PropagateCall ==
    /\ pr_pc = "call"
    /\ pr_out' = PropagateWith(pr_in.m_x, pr_in.s_x, pr_in.act, pr_in.dyn)
    /\ pr_pc' = "done"
    /\ UNCHANGED pr_in
    /\ UNCHANGED <<objVars, predictVars, optimizeVars, restartVars, ncalls, ntrials>>

-----------------------------------------------------------------------------
(* predict (pilco.py 96-115): the tf.while_loop.                           *)

\* loop condition, line 106
LoopCondLe(jj, n) == jj <= n
LoopCond(jj, n) == jj < n

\* the belief the body hands to compute_reward, line 111: the body's own
\* arguments m_x, s_x, which are the belief before this iteration's propagate
RewardArgPost(c, g, m_x, s_x) == Propagate(c, g, m_x, s_x)
RewardArg(c, g, m_x, s_x) == << m_x, s_x >>

\* loop body, lines 108-112 -> <<j, m_x, s_x, reward>>
LoopBodySkip(c, g, rw, jj, m_x, s_x, rwd) ==
    Only({ << jj + 2, nxt[1], nxt[2], rwd + ComputeReward(rw, arg[1], arg[2])[1] >> :
             nxt \in {Propagate(c, g, m_x, s_x)},
             arg \in {RewardArg(c, g, m_x, s_x)} })
LoopBody(c, g, rw, jj, m_x, s_x, rwd) ==
    Only({ << jj + 1, nxt[1], nxt[2], rwd + ComputeReward(rw, arg[1], arg[2])[1] >> :
             nxt \in {Propagate(c, g, m_x, s_x)},
             arg \in {RewardArg(c, g, m_x, s_x)} })

\* the whole loop as a function of its loop variables
RECURSIVE WhileLoop(_, _, _, _, _, _, _, _)
WhileLoop(c, g, rw, n, jj, m_x, s_x, rwd) ==
    IF LoopCond(jj, n)
    THEN Only({ WhileLoop(c, g, rw, n, b[1], b[2], b[3], b[4]) :
                  b \in {LoopBody(c, g, rw, jj, m_x, s_x, rwd)} })
    ELSE << m_x, s_x, rwd >>

\* predict(m_x, s_x, n) -> <<m_x, s_x, reward>>
Predict(c, g, rw, m_x, s_x, n) == WhileLoop(c, g, rw, n, 0, m_x, s_x, 0)

\* _build_likelihood / compute_return (pilco.py 49-52, 173-175)
BuildLikelihood(c, g, rw, m0, S0, h) == Predict(c, g, rw, m0, S0, h)[3]

\* lines 97-102: the loop variables are initialised
PredictStart ==
    /\ p_pc = "call"
    /\ p_pc' = "loop"
    /\ p_j' = 0
    /\ p_m' = p_m0
    /\ p_s' = p_s0
    /\ p_reward' = 0
    /\ UNCHANGED propagateVars
    /\ UNCHANGED <<p_n, p_m0, p_s0, p_in, p_out, p_rw>>
    /\ UNCHANGED <<objVars, optimizeVars, restartVars, ncalls, ntrials>>

\* lines 104-113: one iteration of the loop
PredictBody ==
    /\ p_pc = "loop"
    /\ LoopCond(p_j, p_n)
    /\ LET b == LoopBody(controller, mgpr, reward, p_j, p_m, p_s, p_reward)
       IN  /\ p_j' = b[1]
           /\ p_m' = b[2]
           /\ p_s' = b[3]
           /\ p_reward' = b[4]
           /\ p_in' = Append(p_in, << p_m, p_s >>)
           /\ p_out' = Append(p_out, << b[2], b[3] >>)
           /\ p_rw' = Append(p_rw, RewardArg(controller, mgpr, p_m, p_s))
    /\ UNCHANGED propagateVars
    /\ UNCHANGED <<p_pc, p_n, p_m0, p_s0>>
    /\ UNCHANGED <<objVars, optimizeVars, restartVars, ncalls, ntrials>>

\* lines 106, 115: the condition fails and predict returns
PredictReturn ==
    /\ p_pc = "loop"
    /\ ~LoopCond(p_j, p_n)
    /\ p_pc' = "done"
    /\ UNCHANGED propagateVars
    /\ UNCHANGED <<p_n, p_j, p_m, p_s, p_reward, p_m0, p_s0, p_in, p_out, p_rw>>
    /\ UNCHANGED <<objVars, optimizeVars, restartVars, ncalls, ntrials>>

-----------------------------------------------------------------------------
(* The instance that optimize and restart_controller act on: state_dim 1,  *)
(* control_dim 1, so self.controller.models has one sub-model.             *)

InitController == << [X |-> <<0>>, Y |-> 1, ls |-> 1] >>
InitM == << <<1>> >>
InitS == << <<1>> >>
InitReward == [c |-> 0, w |-> 1]

\* the dynamics-model hyperparameter: as constructed, and as fitted to
\* the data by mgpr.optimize()
UnfitGP == 0
FitGP == 1
GPDomain == {UnfitGP, FitGP}

\* 0.1 * np.random.normal(...): one entry of a draw, in model units
Noise == {-1, 1}

\* np.random.rand(), in hundredths: both thresholds and their neighbours
ThresholdA == 33
ThresholdB == 67
Draws == {ThresholdA - 1, ThresholdA, ThresholdB - 1, ThresholdB}

\* compute_return() of the instance when its controller and dynamics-model
\* parameters are c and g.  The objective is kept in a table for the
\* parameters of small magnitude (@@ <<>> makes the table an explicit
\* function, computed once) and computed on the spot for all others.
TableRange == (-5)..5
TableControllers ==
    [1..Len(InitController) ->
        [X : [1..Cols(InitM) -> TableRange], Y : TableRange, ls : TableRange]]
ReturnTable ==
    [cg \in TableControllers \X GPDomain |->
        BuildLikelihood(cg[1], cg[2], InitReward, InitM, InitS, RolloutHorizon)] @@ <<>>
ComputeReturn(c, g) ==
    IF c \in TableControllers /\ g \in GPDomain
    THEN ReturnTable[<<c, g>>]
    ELSE BuildLikelihood(c, g, InitReward, InitM, InitS, RolloutHorizon)

\* read_values / assign (pilco.py 135, 166, 170)
ReadValues(c, g) == [controller |-> c, mgpr |-> g]

-----------------------------------------------------------------------------
(* The optimizer (gpflow ScipyOptimizer, L-BFGS-B): a bounded ascent on    *)
(* the objective over the parameters of the model it is given.  Each       *)
(* iteration moves one parameter of one sub-model of the controller by one *)
(* unit to the best neighbour, and the dynamics-model parameter to its     *)
(* best value, while that improves the objective.                          *)

\* the parts of the model the optimizer is given: line 70 hands it self,
\* the whole PILCO model, of which self.mgpr and self.controller are parts
TrainableParams == {"controller", "mgpr"}

SubMoves(sm) ==
    {[sm EXCEPT !.Y = @ + d] : d \in Noise}
    \cup {[sm EXCEPT !.ls = @ + d] : d \in Noise}
    \cup {[sm EXCEPT !.X[k] = @ + d] : k \in 1..Len(sm.X), d \in Noise}

Neighbours(c) ==
    UNION {{[c EXCEPT ![i] = sm] : sm \in SubMoves(c[i])} : i \in 1..Len(c)}

\* the neighbours of c, each with its objective
Scored(c, g) == { << a, ComputeReturn(a, g) >> : a \in Neighbours(c) }

\* one iteration from c: the best neighbour if it improves the objective
AscentFrom(c, g) ==
    Only({ IF best[2] > ComputeReturn(c, g) THEN best[1] ELSE c :
             best \in { Only({ CHOOSE a \in N : \A b \in N : a[2] >= b[2] :
                               N \in {Scored(c, g)} }) } })

\* AscentFrom, kept in a table like the objective
AscentTable ==
    [cg \in TableControllers \X GPDomain |-> AscentFrom(cg[1], cg[2])] @@ <<>>
AscentStep(c, g) ==
    IF c \in TableControllers /\ g \in GPDomain
    THEN AscentTable[<<c, g>>]
    ELSE AscentFrom(c, g)

\* the dynamics-model parameter after one iteration from g under
\* controller c: the best value if it improves the objective
GPStep(c, g) ==
    Only({ IF ComputeReturn(c, best) > ComputeReturn(c, g) THEN best ELSE g :
             best \in { CHOOSE h \in GPDomain :
                          \A l \in GPDomain : ComputeReturn(c, h) >= ComputeReturn(c, l) } })

\* one iteration on the model: <<controller, mgpr>> after it
ModelStep(c, g) ==
    Only({ << c1, IF "mgpr" \in TrainableParams THEN GPStep(c1, g) ELSE g >> :
             c1 \in { IF "controller" \in TrainableParams THEN AscentStep(c, g) ELSE c } })

\* at most k iterations, ending early when one moves nothing
RECURSIVE Ascent(_, _, _)
Ascent(c, g, k) ==
    IF k <= 0 THEN << c, g >>
    ELSE Only({ IF d = << c, g >> THEN d ELSE Ascent(d[1], d[2], k - 1) :
                  d \in {ModelStep(c, g)} })

\* optimizer.minimize on the model: the new values of <<controller, mgpr>>
MinimizeModel(c, g, k) == Ascent(c, g, k)

-----------------------------------------------------------------------------
(* optimize (pilco.py 54-90).                                              *)

Idle == p_pc = "off" /\ o_pc = "off" /\ r_pc = "off"

\* optimize(maxiter) is called
CallOptimize ==
    /\ Idle
    /\ ncalls < MaxCalls
    /\ ncalls' = ncalls + 1
    /\ \E k \in 1..MaxIter : o_maxiter' = k
    /\ o_pc' = "gp"
    /\ o_ctrl0' = controller
    /\ o_gp0' = mgpr
    /\ UNCHANGED propagateVars
    /\ UNCHANGED <<objVars, predictVars, restartVars, ntrials>>

\* line 60: self.mgpr.optimize() refits the dynamics model
OptimizeGP ==
    /\ o_pc = "gp"
    /\ mgpr' = FitGP
    /\ o_pc' = "policy"
    /\ UNCHANGED propagateVars
    /\ UNCHANGED <<controller, reward, m_init, S_init, horizon, optimizer>>
    /\ UNCHANGED <<o_maxiter, o_ctrl0, o_gp0, predictVars, restartVars, ncalls, ntrials>>

\* lines 64-70: resume the existing optimizer, or create one and run it
OptimizePolicyRecreate ==
    /\ o_pc = "policy"
    /\ optimizer' = Handle(o_maxiter)
    /\ controller' = MinimizeModel(controller, mgpr, o_maxiter)[1]
    /\ mgpr' = MinimizeModel(controller, mgpr, o_maxiter)[2]
    /\ o_pc' = "report"
    /\ UNCHANGED propagateVars
    /\ UNCHANGED <<reward, m_init, S_init, horizon>>
    /\ UNCHANGED <<o_maxiter, o_ctrl0, o_gp0, predictVars, restartVars, ncalls, ntrials>>
OptimizePolicy ==
    /\ o_pc = "policy"
    /\ IF optimizer # None
       THEN /\ controller' = MinimizeModel(controller, mgpr, optimizer.maxiter)[1]
            /\ mgpr' = MinimizeModel(controller, mgpr, optimizer.maxiter)[2]
            /\ optimizer' = optimizer
       ELSE /\ optimizer' = Handle(o_maxiter)
            /\ controller' = MinimizeModel(controller, mgpr, o_maxiter)[1]
            /\ mgpr' = MinimizeModel(controller, mgpr, o_maxiter)[2]
    /\ o_pc' = "report"
    /\ UNCHANGED propagateVars
    /\ UNCHANGED <<reward, m_init, S_init, horizon>>
    /\ UNCHANGED <<o_maxiter, o_ctrl0, o_gp0, predictVars, restartVars, ncalls, ntrials>>

\* lines 75-90: the learned hyperparameters are printed; optimize returns
\* and its locals and logs are dropped
OptimizeReport ==
    /\ o_pc = "report"
    /\ o_pc' = "off"
    /\ o_maxiter' = 0 /\ o_ctrl0' = InitController /\ o_gp0' = UnfitGP
    /\ UNCHANGED propagateVars
    /\ UNCHANGED <<objVars, predictVars, restartVars, ncalls, ntrials>>

-----------------------------------------------------------------------------
(* restart_controller (pilco.py 134-171).                                  *)

\* lines 140, 145, 150: the branch taken for a draw
StrategyLe(sel) ==
    IF sel <= ThresholdA THEN "A" ELSE IF sel <= ThresholdB THEN "B" ELSE "C"
Strategy(sel) ==
    IF sel < ThresholdA THEN "A" ELSE IF sel < ThresholdB THEN "B" ELSE "C"

\* lines 141-155: the new parameters of one sub-model under a strategy,
\* for noise draws nX (one per entry of X), nY and nL
PerturbModel(strat, sm, nX, nY, nL, m0) ==
    IF strat = "A"
    THEN [X |-> nX, Y |-> nY, ls |-> nL + 1]
    ELSE IF strat = "B"
    THEN [X |-> Seq1([k \in 1..Len(nX) |-> nX[k] + m0[1][k]]), Y |-> nY, ls |-> nL + 1]
    ELSE [X |-> Seq1([k \in 1..Len(nX) |-> nX[k] + sm.X[k]]),
          Y |-> nY + sm.Y,
          ls |-> nL + sm.ls]

\* a reward that is not a number (a value that no objective computed for
\* the instance takes)
NaN == -1000000

\* line 163, old_reward > reward on floats: false when either side is not
\* a number
Greater(a, b) == a # NaN /\ b # NaN /\ a > b

\* lines 163-171: the accept/reject decision, as the new
\* <<live parameters, values, old_reward, outcome>>
DecideTrialNoRestore(old, new, snap, live) ==
    IF old > new
    THEN [live |-> live, values |-> snap, old_reward |-> old, outcome |-> "rejected"]
    ELSE [live |-> live, values |-> live, old_reward |-> new, outcome |-> "accepted"]
DecideTrialGe(old, new, snap, live) ==
    IF old >= new
    THEN [live |-> snap, values |-> snap, old_reward |-> old, outcome |-> "rejected"]
    ELSE [live |-> live, values |-> live, old_reward |-> new, outcome |-> "accepted"]
DecideTrialLt(old, new, snap, live) ==
    IF old < new
    THEN [live |-> snap, values |-> snap, old_reward |-> old, outcome |-> "rejected"]
    ELSE [live |-> live, values |-> live, old_reward |-> new, outcome |-> "accepted"]
DecideTrialKeepBaseline(old, new, snap, live) ==
    IF old > new
    THEN [live |-> snap, values |-> snap, old_reward |-> old, outcome |-> "rejected"]
    ELSE [live |-> live, values |-> live, old_reward |-> old, outcome |-> "accepted"]
DecideTrialStaleSnapshot(old, new, snap, live) ==
    IF old > new
    THEN [live |-> snap, values |-> snap, old_reward |-> old, outcome |-> "rejected"]
    ELSE [live |-> live, values |-> snap, old_reward |-> new, outcome |-> "accepted"]
DecideTrialAlwaysAccept(old, new, snap, live) ==
    [live |-> live, values |-> live, old_reward |-> new, outcome |-> "accepted"]
DecideTrial(old, new, snap, live) ==
    IF Greater(old, new)
    THEN [live |-> snap, values |-> snap, old_reward |-> old, outcome |-> "rejected"]
    ELSE [live |-> live, values |-> live, old_reward |-> new, outcome |-> "accepted"]

\* restart_controller(session, restarts) is called; lines 135-137
CallRestart ==
    /\ Idle
    /\ ncalls < MaxCalls
    /\ ncalls' = ncalls + 1
    /\ \E k \in 0..(MaxRestarts - ntrials) :
          /\ restarts' = k
          /\ ntrials' = ntrials + k
          /\ r_pc' = IF 0 < k THEN "draw" ELSE "return"
    /\ values' = ReadValues(controller, mgpr)
    /\ old_reward' = ComputeReturn(controller, mgpr)
    /\ r' = 0
    /\ trials_done' = 0
    /\ entry' = ReadValues(controller, mgpr)
    /\ outcome' = "none"
    /\ UNCHANGED propagateVars
    /\ UNCHANGED <<select, mi, new_reward, pre, applied, draws, opt_calls,
                   eval_calls, cmp_old, acc_reward>>
    /\ UNCHANGED <<objVars, predictVars, optimizeVars>>

\* line 138: the trial's uniform draw
RestartDraw ==
    /\ r_pc = "draw"
    /\ \E u \in Draws : select' = u
    /\ draws' = 1
    /\ mi' = 1
    /\ pre' = ReadValues(controller, mgpr)
    /\ applied' = <<>>
    /\ opt_calls' = 0
    /\ eval_calls' = 0
    /\ r_pc' = "perturb"
    /\ UNCHANGED propagateVars
    /\ UNCHANGED <<restarts, values, old_reward, r, new_reward, cmp_old,
                   outcome, acc_reward, trials_done, entry>>
    /\ UNCHANGED <<objVars, predictVars, optimizeVars, ncalls, ntrials>>

\* lines 139-155: one sub-model of self.controller.models is perturbed
RestartPerturb ==
    /\ r_pc = "perturb"
    /\ mi <= Len(controller)
    /\ \E nX \in [1..Len(controller[mi].X) -> Noise], nY \in Noise, nL \in Noise :
          controller' = [controller EXCEPT
              ![mi] = PerturbModel(Strategy(select), @, Seq1(nX), nY, nL, m_init)]
    /\ applied' = Append(applied, Strategy(select))
    /\ mi' = mi + 1
    /\ r_pc' = IF mi = Len(controller) THEN "optimize" ELSE "perturb"
    /\ UNCHANGED propagateVars
    /\ UNCHANGED <<mgpr, reward, m_init, S_init, horizon, optimizer>>
    /\ UNCHANGED <<restarts, values, old_reward, r, select, new_reward, pre, draws,
                   opt_calls, eval_calls, cmp_old, outcome, acc_reward, trials_done, entry>>
    /\ UNCHANGED <<predictVars, optimizeVars, ncalls, ntrials>>

\* lines 157-159: the live optimizer is resumed; with self.optimizer None
\* the attribute access raises and restart_controller ends there.  select
\* is dead once the loop over the sub-models is over: it and the logs of
\* the perturbation are cleared here.
RestartOptimizeRestore ==
    /\ r_pc = "optimize"
    /\ IF optimizer = None
       THEN /\ r_pc' = "error"
            /\ controller' = values.controller
            /\ mgpr' = values.mgpr
            /\ UNCHANGED <<opt_calls, select, applied, draws>>
       ELSE /\ controller' = MinimizeModel(controller, mgpr, optimizer.maxiter)[1]
            /\ mgpr' = MinimizeModel(controller, mgpr, optimizer.maxiter)[2]
            /\ opt_calls' = opt_calls + 1
            /\ select' = 0 /\ applied' = <<>> /\ draws' = 0
            /\ r_pc' = "evaluate"
    /\ UNCHANGED propagateVars
    /\ UNCHANGED <<reward, m_init, S_init, horizon, optimizer>>
    /\ UNCHANGED <<restarts, values, old_reward, r, mi, new_reward, pre,
                   eval_calls, cmp_old, outcome, acc_reward, trials_done, entry>>
    /\ UNCHANGED <<predictVars, optimizeVars, ncalls, ntrials>>
RestartOptimize ==
    /\ r_pc = "optimize"
    /\ IF optimizer = None
       THEN /\ r_pc' = "error"
            /\ UNCHANGED <<controller, mgpr, opt_calls, select, applied, draws>>
       ELSE /\ controller' = MinimizeModel(controller, mgpr, optimizer.maxiter)[1]
            /\ mgpr' = MinimizeModel(controller, mgpr, optimizer.maxiter)[2]
            /\ opt_calls' = opt_calls + 1
            /\ select' = 0 /\ applied' = <<>> /\ draws' = 0
            /\ r_pc' = "evaluate"
    /\ UNCHANGED propagateVars
    /\ UNCHANGED <<reward, m_init, S_init, horizon, optimizer>>
    /\ UNCHANGED <<restarts, values, old_reward, r, mi, new_reward, pre,
                   eval_calls, cmp_old, outcome, acc_reward, trials_done, entry>>
    /\ UNCHANGED <<predictVars, optimizeVars, ncalls, ntrials>>

\* lines 160-162: the objective is recomputed and printed beside old_reward
RestartEvaluate ==
    /\ r_pc = "evaluate"
    /\ new_reward' = ComputeReturn(controller, mgpr)
    /\ eval_calls' = eval_calls + 1
    /\ cmp_old' = old_reward
    /\ r_pc' = "decide"
    /\ UNCHANGED propagateVars
    /\ UNCHANGED <<restarts, values, old_reward, r, select, mi, pre, applied,
                   draws, opt_calls, outcome, acc_reward, trials_done, entry>>
    /\ UNCHANGED <<objVars, predictVars, optimizeVars, ncalls, ntrials>>

\* lines 163-171: restore the snapshot, or keep the parameters
RestartDecide ==
    /\ r_pc = "decide"
    /\ LET d == DecideTrial(old_reward, new_reward, values,
                            ReadValues(controller, mgpr))
       IN  /\ controller' = d.live.controller
           /\ mgpr' = d.live.mgpr
           /\ values' = d.values
           /\ old_reward' = d.old_reward
           /\ outcome' = d.outcome
           /\ acc_reward' = IF d.outcome = "accepted" THEN new_reward ELSE acc_reward
    /\ trials_done' = trials_done + 1
    /\ r_pc' = "decided"
    /\ UNCHANGED propagateVars
    /\ UNCHANGED <<reward, m_init, S_init, horizon, optimizer>>
    /\ UNCHANGED <<restarts, r, select, mi, new_reward, pre, applied, draws,
                   opt_calls, eval_calls, cmp_old, entry>>
    /\ UNCHANGED <<predictVars, optimizeVars, ncalls, ntrials>>

\* line 137: the next r of range(restarts), or the end of the loop.  The locals
\* select and reward are dead until the next trial assigns them, and the
\* per-trial logs start afresh: all are cleared here.
RestartNextEarlyStop ==
    /\ r_pc = "decided"
    /\ r' = r + 1
    /\ r_pc' = IF r + 1 < restarts /\ outcome # "accepted" THEN "draw" ELSE "return"
    /\ select' = 0 /\ mi' = 0 /\ new_reward' = 0
    /\ pre' = values
    /\ applied' = <<>> /\ draws' = 0 /\ opt_calls' = 0 /\ eval_calls' = 0
    /\ cmp_old' = 0
    /\ UNCHANGED propagateVars
    /\ UNCHANGED <<restarts, values, old_reward, outcome, acc_reward, trials_done, entry>>
    /\ UNCHANGED <<objVars, predictVars, optimizeVars, ncalls, ntrials>>
RestartNext ==
    /\ r_pc = "decided"
    /\ r' = r + 1
    /\ r_pc' = IF r + 1 < restarts THEN "draw" ELSE "return"
    /\ select' = 0 /\ mi' = 0 /\ new_reward' = 0
    /\ pre' = values
    /\ applied' = <<>> /\ draws' = 0 /\ opt_calls' = 0 /\ eval_calls' = 0
    /\ cmp_old' = 0
    /\ UNCHANGED propagateVars
    /\ UNCHANGED <<restarts, values, old_reward, outcome, acc_reward, trials_done, entry>>
    /\ UNCHANGED <<objVars, predictVars, optimizeVars, ncalls, ntrials>>

\* the loop is exhausted: restart_controller returns, and its locals and
\* logs are dropped
RestartReturn ==
    /\ r_pc = "return"
    /\ r_pc' = "off"
    /\ restarts' = 0 /\ r' = 0 /\ old_reward' = 0
    /\ values' = ReadValues(InitController, UnfitGP)
    /\ pre' = ReadValues(InitController, UnfitGP)
    /\ entry' = ReadValues(InitController, UnfitGP)
    /\ outcome' = "none" /\ acc_reward' = 0 /\ trials_done' = 0
    /\ UNCHANGED propagateVars
    /\ UNCHANGED <<select, mi, new_reward, applied, draws, opt_calls, eval_calls, cmp_old>>
    /\ UNCHANGED <<objVars, predictVars, optimizeVars, ncalls, ntrials>>

\* the exception raised in a trial leaves restart_controller: nothing in
\* the method catches it, its locals and logs are dropped, and the object
\* stays as the trial left it, open to further calls
RestartRaise ==
    /\ r_pc = "error"
    /\ r_pc' = "off"
    /\ restarts' = 0 /\ r' = 0 /\ old_reward' = 0
    /\ values' = ReadValues(InitController, UnfitGP)
    /\ pre' = ReadValues(InitController, UnfitGP)
    /\ entry' = ReadValues(InitController, UnfitGP)
    /\ outcome' = "none" /\ acc_reward' = 0 /\ trials_done' = 0
    /\ select' = 0 /\ mi' = 0 /\ new_reward' = 0
    /\ applied' = <<>> /\ draws' = 0 /\ opt_calls' = 0 /\ eval_calls' = 0
    /\ cmp_old' = 0
    /\ UNCHANGED propagateVars
    /\ UNCHANGED <<objVars, predictVars, optimizeVars, ncalls, ntrials>>

\* Numerical degeneracy inside a trial.  Nothing in restart_controller
\* catches an exception: one raised by the optimizer (lines 157-159) or by
\* compute_return (line 160) leaves the method at that line.

\* lines 157-159: the optimizer raises after some of its iterations
RestartOptimizeFails ==
    /\ r_pc = "optimize"
    /\ optimizer # None
    /\ \E k \in 0..optimizer.maxiter :
          /\ controller' = MinimizeModel(controller, mgpr, k)[1]
          /\ mgpr' = MinimizeModel(controller, mgpr, k)[2]
    /\ outcome' = "degenerate"
    /\ r_pc' = "error"
    /\ UNCHANGED propagateVars
    /\ UNCHANGED <<reward, m_init, S_init, horizon, optimizer>>
    /\ UNCHANGED <<restarts, values, old_reward, r, select, mi, new_reward, pre,
                   applied, draws, opt_calls, eval_calls, cmp_old, acc_reward,
                   trials_done, entry>>
    /\ UNCHANGED <<predictVars, optimizeVars, ncalls, ntrials>>

\* line 160: compute_return raises
RestartEvaluateFails ==
    /\ r_pc = "evaluate"
    /\ outcome' = "degenerate"
    /\ r_pc' = "error"
    /\ UNCHANGED propagateVars
    /\ UNCHANGED <<restarts, values, old_reward, r, select, mi, new_reward, pre,
                   applied, draws, opt_calls, eval_calls, cmp_old, acc_reward,
                   trials_done, entry>>
    /\ UNCHANGED <<objVars, predictVars, optimizeVars, ncalls, ntrials>>

\* lines 160-162: compute_return yields a reward that is not a number
RestartEvaluateNaN ==
    /\ r_pc = "evaluate"
    /\ new_reward' = NaN
    /\ eval_calls' = eval_calls + 1
    /\ cmp_old' = old_reward
    /\ r_pc' = "decide"
    /\ UNCHANGED propagateVars
    /\ UNCHANGED <<restarts, values, old_reward, r, select, mi, pre, applied,
                   draws, opt_calls, outcome, acc_reward, trials_done, entry>>
    /\ UNCHANGED <<objVars, predictVars, optimizeVars, ncalls, ntrials>>

-----------------------------------------------------------------------------
(* The specifications.                                                     *)

\* the state after PILCO.__init__ (pilco.py 16-46) of the instance, no
\* method running
InitInstance ==
    /\ controller = InitController
    /\ mgpr = UnfitGP
    /\ reward = InitReward
    /\ m_init = InitM
    /\ S_init = InitS
    /\ horizon = RolloutHorizon
    /\ optimizer = None
    /\ p_pc = "off" /\ p_n = 0 /\ p_j = 0 /\ p_m = InitM /\ p_s = InitS
    /\ p_reward = 0 /\ p_m0 = InitM /\ p_s0 = InitS
    /\ p_in = <<>> /\ p_out = <<>> /\ p_rw = <<>>
    /\ o_pc = "off" /\ o_maxiter = 0 /\ o_ctrl0 = InitController /\ o_gp0 = UnfitGP
    /\ r_pc = "off" /\ restarts = 0
    /\ values = ReadValues(InitController, UnfitGP)
    /\ old_reward = 0 /\ r = 0 /\ select = 0 /\ mi = 0 /\ new_reward = 0
    /\ pre = ReadValues(InitController, UnfitGP)
    /\ applied = <<>> /\ draws = 0 /\ opt_calls = 0 /\ eval_calls = 0
    /\ cmp_old = 0 /\ outcome = "none" /\ acc_reward = 0
    /\ trials_done = 0
    /\ entry = ReadValues(controller, mgpr)
    /\ ncalls = 0 /\ ntrials = 0

Init ==
    /\ InitInstance
    /\ pr_pc = "off" /\ pr_in = NoCall /\ pr_out = <<>>

Next ==
    \/ CallOptimize
    \/ OptimizeGP
    \/ OptimizePolicy
    \/ OptimizeReport
    \/ CallRestart
    \/ RestartDraw
    \/ RestartPerturb
    \/ RestartOptimize
    \/ RestartEvaluate
    \/ RestartDecide
    \/ RestartNext
    \/ RestartReturn
    \/ RestartRaise

Spec == Init /\ [][Next]_vars

\* the same instance when the steps of a trial may degenerate
NextDegenerate ==
    \/ Next
    \/ RestartOptimizeFails
    \/ RestartEvaluateFails
    \/ RestartEvaluateNaN

SpecDegenerate == Init /\ [][NextDegenerate]_vars

-----------------------------------------------------------------------------
(* The rollout on its own: an instance with state_dim 2 and control_dim 1, *)
(* its collaborators and its initial belief drawn from small sets, on      *)
(* which _build_likelihood calls predict(m_init, S_init, horizon).         *)

RolloutControllers ==
    { << [X |-> <<0, 0>>, Y |-> y, ls |-> 1] >> : y \in {-1, 0, 1} }
RolloutRewards == { [c |-> 1, w |-> 0], [c |-> 0, w |-> 1] }
RolloutMeans == { << <<a, b>> >> : a, b \in {-1, 0, 1} }
RolloutCovs ==
    { << <<0, 0>>, <<0, 0>> >>, << <<1, 0>>, <<0, 0>> >>,
      << <<1, 0>>, <<0, 1>> >>, << <<1, 1>>, <<1, 1>> >> }

InitPredict ==
    /\ controller \in RolloutControllers
    /\ mgpr \in GPDomain
    /\ reward \in RolloutRewards
    /\ m_init \in RolloutMeans
    /\ S_init \in RolloutCovs
    /\ horizon \in (-1)..MaxHorizon
    /\ optimizer = None
    /\ p_pc = "call" /\ p_n = horizon /\ p_m0 = m_init /\ p_s0 = S_init
    /\ p_j = 0 /\ p_m = m_init /\ p_s = S_init /\ p_reward = 0
    /\ p_in = <<>> /\ p_out = <<>> /\ p_rw = <<>>
    /\ o_pc = "off" /\ o_maxiter = 0 /\ o_ctrl0 = controller /\ o_gp0 = mgpr
    /\ r_pc = "off" /\ restarts = 0
    /\ values = ReadValues(controller, mgpr)
    /\ old_reward = 0 /\ r = 0 /\ select = 0 /\ mi = 0 /\ new_reward = 0
    /\ pre = ReadValues(controller, mgpr)
    /\ applied = <<>> /\ draws = 0 /\ opt_calls = 0 /\ eval_calls = 0
    /\ cmp_old = 0 /\ outcome = "none" /\ acc_reward = 0
    /\ trials_done = 0
    /\ entry = ReadValues(controller, mgpr)
    /\ ncalls = 0 /\ ntrials = 0
    /\ pr_pc = "off" /\ pr_in = NoCall /\ pr_out = <<>>

NextPredict ==
    \/ PredictStart
    \/ PredictBody
    \/ PredictReturn

SpecPredict == InitPredict /\ [][NextPredict]_vars

-----------------------------------------------------------------------------
(* propagate on its own: state_dim 2, control_dim 1, the belief and the    *)
(* outputs of the two collaborators drawn from small sets of integer       *)
(* matrices; the covariances are symmetric, the cross-covariances are not  *)
(* constrained.                                                            *)

StateCovs == { << <<a, b>>, <<b, c>> >> : a, c \in {1, 2}, b \in {0, 1} }
ActionCrossCovs == { << <<a>>, <<b>> >> : a \in {-1, 1}, b \in {0, 1} }
DeltaCovs == { << <<0, 0>>, <<0, 0>> >>, << <<1, 1>>, <<1, 2>> >> }
DeltaCrossCovs ==
    { << <<a, b>>, <<c, d>>, <<e, f>> >> :
        a, b, c, d \in {-1, 0, 1}, e, f \in {0, 1} }

InitPropagate ==
    /\ InitInstance
    /\ pr_pc = "call"
    /\ pr_out = <<>>
    /\ \E s_x \in StateCovs, c_xu \in ActionCrossCovs,
          S_dx \in DeltaCovs, C_dx \in DeltaCrossCovs :
          pr_in = [m_x |-> << <<1, 0>> >>,
                   s_x |-> s_x,
                   act |-> << << <<1>> >>, << <<1>> >>, c_xu >>,
                   dyn |-> << << <<0, 1>> >>, S_dx, C_dx >>]

NextPropagate == PropagateCall

SpecPropagate == InitPropagate /\ [][NextPropagate]_vars

-----------------------------------------------------------------------------
(* The perturbation of a trial on its own: restart_controller has just     *)
(* been entered (lines 135-136 done) on an instance with control_dim 2 or  *)
(* 3 that was never optimized, so that the trial ends at lines 157-159.    *)

PerturbControllers ==
    { << [X |-> <<0>>, Y |-> 1, ls |-> 1], [X |-> <<0>>, Y |-> 0, ls |-> 1] >>,
      << [X |-> <<1>>, Y |-> -1, ls |-> 2], [X |-> <<0>>, Y |-> 1, ls |-> 1] >>,
      << [X |-> <<0>>, Y |-> 1, ls |-> 1], [X |-> <<0>>, Y |-> 0, ls |-> 1],
         [X |-> <<2>>, Y |-> 0, ls |-> 0] >> }

InitPerturb ==
    /\ controller \in PerturbControllers
    /\ mgpr = UnfitGP
    /\ reward = InitReward
    /\ m_init = InitM
    /\ S_init = InitS
    /\ horizon = RolloutHorizon
    /\ optimizer = None
    /\ p_pc = "off" /\ p_n = 0 /\ p_j = 0 /\ p_m = InitM /\ p_s = InitS
    /\ p_reward = 0 /\ p_m0 = InitM /\ p_s0 = InitS
    /\ p_in = <<>> /\ p_out = <<>> /\ p_rw = <<>>
    /\ o_pc = "off" /\ o_maxiter = 0 /\ o_ctrl0 = InitController /\ o_gp0 = UnfitGP
    /\ r_pc = "draw"
    /\ restarts \in 1..MaxRestarts
    /\ values = ReadValues(controller, mgpr)
    /\ old_reward = ComputeReturn(controller, mgpr)
    /\ r = 0 /\ select = 0 /\ mi = 0 /\ new_reward = 0
    /\ pre = ReadValues(InitController, UnfitGP)
    /\ applied = <<>> /\ draws = 0 /\ opt_calls = 0 /\ eval_calls = 0
    /\ cmp_old = 0 /\ outcome = "none" /\ acc_reward = 0
    /\ trials_done = 0
    /\ entry = ReadValues(controller, mgpr)
    /\ ncalls = 1 /\ ntrials = restarts
    /\ pr_pc = "off" /\ pr_in = NoCall /\ pr_out = <<>>

NextPerturb ==
    \/ RestartDraw
    \/ RestartPerturb
    \/ RestartOptimize
    \/ RestartRaise

SpecPerturb == InitPerturb /\ [][NextPerturb]_vars

-----------------------------------------------------------------------------
(* Reference quantities for the rollout claims.                            *)

\* the belief after k applications of propagate to the initial belief
RECURSIVE BeliefAt(_)
BeliefAt(k) ==
    IF k <= 0 THEN << p_m0, p_s0 >>
    ELSE Only({ Propagate(controller, mgpr, b[1], b[2]) : b \in {BeliefAt(k - 1)} })

\* the sum of compute_reward over the beliefs lo..hi
RECURSIVE RewardSum(_, _)
RewardSum(lo, hi) ==
    IF hi < lo THEN 0
    ELSE Only({ ComputeReward(reward, b[1], b[2])[1] : b \in {BeliefAt(hi)} })
         + RewardSum(lo, hi - 1)

\* C1 as stated: in every iteration the reward is evaluated on the belief
\* that propagate returned in that iteration, so that predict returns the
\* sum of compute_reward over the beliefs 1..n.
C1_RewardOnPostStep ==
    (p_pc = "done" /\ p_n >= 1) =>
        /\ \A k \in 1..Len(p_rw) : p_rw[k] = p_out[k]
        /\ p_reward = RewardSum(1, p_n)

\* C1 amended: in every iteration k the reward is evaluated on the belief
\* that was the input of propagate in that iteration (belief k, counting the
\* initial belief as 0), so that predict returns the sum of compute_reward
\* over the beliefs 0..n-1.
C1_RewardOnPreStep ==
    (p_pc = "done" /\ p_n >= 1) =>
        /\ Len(p_rw) = p_n
        /\ \A k \in 1..Len(p_rw) : p_rw[k] = BeliefAt(k - 1)
        /\ p_reward = RewardSum(0, p_n - 1)

C1_Witness ==
    /\ p_pc = "done"
    /\ p_n >= 2
    /\ RewardSum(0, p_n - 1) # RewardSum(1, p_n)
    /\ p_reward = RewardSum(0, p_n - 1)

\* C9: with horizon 0 predict calls neither propagate nor compute_reward
\* and returns reward 0 and the initial belief.
C9_HorizonZeroNoOp ==
    (p_pc = "done" /\ p_n = 0) =>
        /\ p_in = <<>> /\ p_out = <<>> /\ p_rw = <<>>
        /\ p_reward = 0
        /\ << p_m, p_s >> = << p_m0, p_s0 >>

C9_Witness ==
    /\ p_pc = "done"
    /\ p_n = 0
    /\ BeliefAt(1) # << p_m0, p_s0 >>
    /\ ComputeReward(reward, p_m0, p_s0)[1] # 0

\* C10: for n >= 0 the loop runs exactly n iterations, each with one
\* propagate and one compute_reward call, never leaves early, and the
\* belief each propagate receives is the one the previous propagate
\* returned (the initial belief for the first).
C10_ExactlyNSequentialSteps ==
    /\ (p_pc = "loop" /\ p_n >= 0) =>
          /\ p_j <= p_n
          /\ Len(p_in) = p_j /\ Len(p_out) = p_j /\ Len(p_rw) = p_j
    /\ (p_pc = "done" /\ p_n >= 0) =>
          /\ p_j = p_n
          /\ Len(p_in) = p_n /\ Len(p_out) = p_n /\ Len(p_rw) = p_n
          /\ \A k \in 1..p_n :
                p_in[k] = IF k = 1 THEN << p_m0, p_s0 >> ELSE p_out[k - 1]
          /\ << p_m, p_s >> = BeliefAt(p_n)

C10_Witness ==
    /\ p_pc = "done"
    /\ p_n = MaxHorizon
    /\ Len(p_in) = MaxHorizon
    /\ \A k \in 1..(p_n - 1) : p_out[k] # p_out[k + 1]

-----------------------------------------------------------------------------
(* Claims about restart_controller and optimize.                           *)

Live == ReadValues(controller, mgpr)

\* C2: when a trial has been rejected, the live parameters equal the
\* parameters that were live when that trial's perturbation began.
C2_RejectRestoresPreTrial ==
    (r_pc = "decided" /\ outcome = "rejected") => Live = pre

C2_Witness ==
    /\ r_pc = "decided"
    /\ outcome = "rejected"
    /\ r >= 1
    /\ pre # entry
    /\ new_reward < cmp_old

\* C3: the decision step rejects, restoring the snapshot, exactly when
\* old_reward > new_reward, new_reward being the objective of the
\* re-optimized parameters; otherwise it accepts and keeps the parameters.
C3_RejectIffOldGreater ==
    [][ r_pc = "decide" =>
          /\ new_reward = ComputeReturn(controller, mgpr)
          /\ IF old_reward > new_reward
             THEN /\ outcome' = "rejected"
                  /\ controller' = values.controller
                  /\ mgpr' = values.mgpr
             ELSE /\ outcome' = "accepted"
                  /\ controller' = controller
                  /\ mgpr' = mgpr ]_vars

C3_Witness ==
    /\ r_pc = "decided"
    /\ outcome = "accepted"
    /\ new_reward > cmp_old
    /\ Live # pre

\* C4 as stated: a trial whose new reward equals old_reward is rejected
\* and the snapshot is restored.
C4_TieRejected ==
    (r_pc = "decided" /\ new_reward = cmp_old) =>
        (outcome = "rejected" /\ Live = pre)

\* C4 amended: a trial is rejected only when its new reward is strictly
\* less than old_reward; a trial whose new reward equals old_reward is
\* accepted: its parameters are kept and become the snapshot.
C4_TieAccepted ==
    /\ (r_pc = "decided" /\ outcome = "rejected") => new_reward < cmp_old
    /\ (r_pc = "decided" /\ new_reward = cmp_old) =>
          /\ outcome = "accepted"
          /\ values = Live
          /\ ComputeReturn(controller, mgpr) = new_reward

C4_Witness ==
    /\ r_pc = "decided"
    /\ new_reward = cmp_old
    /\ outcome = "accepted"
    /\ Live # pre

\* C6: from an accepted trial until the next decision, old_reward is the
\* reward computed in that accepted trial, and it is the value the next
\* decision compares the new reward with.
C6_BaselineIsAcceptedReward ==
    /\ (r_pc \in {"decided", "draw", "perturb", "optimize", "evaluate", "decide"}
        /\ outcome = "accepted") => old_reward = acc_reward
    /\ (r_pc = "decided" /\ outcome = "accepted") => old_reward = new_reward
    /\ r_pc = "decide" => cmp_old = old_reward

C6_Witness ==
    /\ r_pc = "decide"
    /\ r >= 1
    /\ outcome = "accepted"
    /\ cmp_old = acc_reward
    /\ acc_reward # ComputeReturn(entry.controller, entry.mgpr)

\* C7 as stated: when a trial has been accepted, the live parameters
\* differ from the parameters that were live when its perturbation began.
C7_AcceptedDiffers ==
    (r_pc = "decided" /\ outcome = "accepted") => Live # pre

\* C7 amended: when a trial has been accepted, the live parameters are
\* the re-optimized ones, whose objective is the trial's new reward, and
\* they are the new snapshot; they may equal the pre-trial parameters.
C7_AcceptedKept ==
    (r_pc = "decided" /\ outcome = "accepted") =>
        /\ values = Live
        /\ ComputeReturn(controller, mgpr) = new_reward

C7_Witness ==
    /\ r_pc = "decided"
    /\ outcome = "accepted"
    /\ Live = pre
    /\ values = Live


\* C5 as stated: the optimizer call of optimize and the re-optimize step
\* of a restart trial leave the dynamics-model parameters as they are.
C5_PolicyPhaseKeepsDynamics ==
    [][ (o_pc = "policy" \/ r_pc = "optimize") => mgpr' = mgpr ]_vars

\* the strategy the claim assigns to a draw u (in hundredths)
ClaimedStrategy(u) ==
    CASE u < 33 -> "A"
      [] 33 <= u /\ u < 67 -> "B"
      [] u >= 67 -> "C"

\* whether sub-model sm can result from strategy s applied to sub-model sm0
ResultOf(s, sm, sm0) ==
    /\ s = "A" =>
          /\ \A k \in 1..Len(sm.X) : sm.X[k] \in Noise
          /\ sm.Y \in Noise
          /\ sm.ls - 1 \in Noise
    /\ s = "B" =>
          /\ \A k \in 1..Len(sm.X) : sm.X[k] - m_init[1][k] \in Noise
          /\ sm.Y \in Noise
          /\ sm.ls - 1 \in Noise
    /\ s = "C" =>
          /\ \A k \in 1..Len(sm.X) : sm.X[k] - sm0.X[k] \in Noise
          /\ sm.Y - sm0.Y \in Noise
          /\ sm.ls - sm0.ls \in Noise

\* C8: a trial makes one draw; every sub-model is perturbed by the
\* strategy the draw selects (A below 0.33, B from 0.33 and below 0.67,
\* C from 0.67), so 0.33 selects B and 0.67 selects C.  Checked on
\* controllers of two and of three sub-models.
C8_OneStrategyPerTrial ==
    /\ r_pc \in {"perturb", "optimize", "error"} =>
          /\ draws = 1
          /\ \A i \in 1..Len(applied) : applied[i] = ClaimedStrategy(select)
    /\ r_pc \in {"optimize", "error"} =>
          Len(applied) = Len(controller)
    /\ r_pc = "optimize" =>
          \A i \in 1..Len(controller) :
              ResultOf(ClaimedStrategy(select), controller[i], pre.controller[i])

C8_Witness ==
    /\ r_pc = "optimize"
    /\ select = 33
    /\ applied = <<"B", "B", "B">>
    /\ \A i \in 1..Len(controller) : controller[i] # pre.controller[i]

-----------------------------------------------------------------------------
(* The rollout under a zero dynamics model and a zero policy.              *)

IsZero(A) == \A i \in 1..Rows(A) : \A jj \in 1..Cols(A) : A[i][jj] = 0

\* at the initial belief the policy's action is 0 and the dynamics model
\* predicts delta 0 with zero delta covariance and zero cross-covariance
ZeroMapping ==
    LET act == ComputeAction(controller, p_m0, p_s0)
        jn == PropagateJoint(p_m0, p_s0, act)
        dyn == PredictOnNoisyInputs(mgpr, Cols(p_m0), jn[1], jn[3])
    IN  IsZero(act[1]) /\ IsZero(dyn[1]) /\ IsZero(dyn[2]) /\ IsZero(dyn[3])

\* C11: with a dynamics model that predicts delta 0 (zero delta covariance
\* and cross-covariance) and a policy whose action is 0, every belief of the
\* rollout is the initial belief and, for a horizon n >= 0, predict returns
\* n times compute_reward(initial belief); with a reward of 1 per call and
\* horizon 3 it returns 3.
C11_ZeroMappingConstantBelief ==
    (p_pc \in {"loop", "done"} /\ p_n >= 0 /\ ZeroMapping) =>
        /\ \A k \in 1..Len(p_out) : p_out[k] = << p_m0, p_s0 >>
        /\ << p_m, p_s >> = << p_m0, p_s0 >>
        /\ p_reward = p_j * ComputeReward(reward, p_m0, p_s0)[1]
        /\ p_pc = "done" =>
              /\ p_reward = p_n * ComputeReward(reward, p_m0, p_s0)[1]
              /\ (p_n = 3 /\ ComputeReward(reward, p_m0, p_s0)[1] = 1) => p_reward = 3

C11_Witness ==
    /\ p_pc = "done"
    /\ p_n = 3
    /\ ZeroMapping
    /\ Cols(p_m0) = 2 /\ Len(controller) = 1
    /\ ~IsZero(p_m0) /\ ~IsZero(p_s0)
    /\ ComputeReward(reward, p_m0, p_s0)[1] = 1
    /\ p_reward = 3

-----------------------------------------------------------------------------
(* Claims about failures inside restart_controller.                        *)

\* C12 as stated: a degenerate trial is rolled back.  When the optimizer or
\* the objective evaluation of a trial fails, restart_controller ends with
\* the live parameters equal to the snapshot the trial started from; when
\* the objective is not a number the trial is rejected and restored; and
\* old_reward is never a reward that is not a number.
C12_DegeneracyRolledBack ==
    /\ (r_pc = "error" /\ outcome = "degenerate") => Live = pre
    /\ (r_pc = "decided" /\ new_reward = NaN) =>
          (outcome = "rejected" /\ Live = pre)
    /\ old_reward # NaN

\* C13 as stated: a horizon that is zero or negative is rejected before the
\* rollout: predict never starts its loop on it and never returns a result
\* for it.
C13_InvalidHorizonRejected ==
    horizon <= 0 => p_pc \notin {"loop", "done"}

-----------------------------------------------------------------------------
(* Claims about the optimizer handle.                                      *)

\* C14: once self.optimizer is a handle no step replaces or resets it, and
\* the only step that sets it is the policy phase of an optimize call that
\* finds it None.
C14_HandleCreatedOnce ==
    [][ /\ optimizer # None => optimizer' = optimizer
        /\ optimizer' # optimizer => (o_pc = "policy" /\ optimizer = None) ]_vars

C14_Witness ==
    /\ r_pc = "evaluate"
    /\ ncalls = 2
    /\ r >= 1
    /\ opt_calls = 1
    /\ optimizer = Handle(1)
    /\ controller # pre.controller

-----------------------------------------------------------------------------
(* Claims about the course of restart_controller.                          *)

\* C15: restart_controller(restarts = k) returns only after exactly k
\* trials, whatever their outcomes; in every trial all sub-models are
\* perturbed first, then the optimizer is invoked exactly once, then the
\* objective is recomputed once, and the decision uses that objective.
C15_FixedTrialsInOrder ==
    /\ r_pc = "return" => (trials_done = restarts /\ r = restarts)
    /\ r_pc \in {"draw", "perturb", "optimize", "evaluate", "decide"} =>
          (r < restarts /\ trials_done = r)
    /\ r_pc = "decided" => (r < restarts /\ trials_done = r + 1)
    /\ r_pc = "perturb" =>
          (Len(applied) = mi - 1 /\ opt_calls = 0 /\ eval_calls = 0)
    /\ r_pc = "optimize" =>
          (Len(applied) = Len(controller) /\ opt_calls = 0 /\ eval_calls = 0)
    /\ r_pc = "evaluate" =>
          (mi = Len(controller) + 1 /\ opt_calls = 1 /\ eval_calls = 0)
    /\ r_pc \in {"decide", "decided"} =>
          (mi = Len(controller) + 1 /\ opt_calls = 1 /\ eval_calls = 1)
    /\ r_pc = "decide" => new_reward = ComputeReturn(controller, mgpr)

C15_Witness ==
    /\ r_pc = "return"
    /\ restarts = 2
    /\ trials_done = 2
    /\ outcome = "rejected"
    /\ Live # entry

-----------------------------------------------------------------------------
(* Claims about propagate.                                                 *)

IsSymmetric(A) == A = Transpose(A)

\* C16: when s_x, the policy's s_u and the dynamics model's S_dx are
\* symmetric, the covariance propagate returns is symmetric, whatever the
\* cross-covariances c_xu and C_dx: the two cross terms it adds are
\* transposes of each other.
C16_SymmetricCovariance ==
    (pr_pc = "done" /\ IsSymmetric(pr_in.s_x) /\ IsSymmetric(pr_in.act[2])
       /\ IsSymmetric(pr_in.dyn[2])) =>
        LET s1 == PropagateJoint(pr_in.m_x, pr_in.s_x, pr_in.act)[2]
            C_dx == pr_in.dyn[3]
        IN  /\ IsSymmetric(pr_out[2])
            /\ MatMul(Transpose(C_dx), Transpose(s1)) = Transpose(MatMul(s1, C_dx))

C16_Witness ==
    /\ pr_pc = "done"
    /\ IsSymmetric(pr_out[2])
    /\ LET cross == MatMul(PropagateJoint(pr_in.m_x, pr_in.s_x, pr_in.act)[2],
                           pr_in.dyn[3])
       IN  ~IsSymmetric(cross)
    /\ pr_in.dyn[2] # << <<0, 0>>, <<0, 0>> >>
    /\ pr_in.s_x[1][2] # 0

\* C17 as stated: the policy optimization of every optimize(maxiter) call
\* is bounded by the maxiter of that call: when the call reports, the
\* controller is what the optimizer reaches in at most maxiter iterations
\* from the controller the call started with and the dynamics model fitted
\* at line 60.
C17_MaxiterOfThisCall ==
    o_pc = "report" => controller = MinimizeModel(o_ctrl0, FitGP, o_maxiter)[1]

\* C18: with a deterministic objective and no failing step, within one
\* restart_controller call: old_reward is the objective of the live
\* parameters at the start of every trial; a decision never lowers
\* old_reward; old_reward is never below the objective at entry; and when the
\* call returns the objective of the live parameters is at least the
\* objective at entry.
C18_BaselineMonotone ==
    /\ r_pc \in {"draw", "decided", "return"} =>
          /\ old_reward = ComputeReturn(controller, mgpr)
          /\ values = Live
    /\ r_pc \in {"draw", "perturb", "optimize", "evaluate", "decide", "decided", "return"} =>
          old_reward >= ComputeReturn(entry.controller, entry.mgpr)
    /\ r_pc = "decided" => old_reward >= cmp_old
    /\ r_pc = "return" =>
          ComputeReturn(controller, mgpr) >= ComputeReturn(entry.controller, entry.mgpr)

C18_Witness ==
    /\ r_pc = "return"
    /\ restarts = 2
    /\ outcome = "rejected"
    /\ ComputeReturn(controller, mgpr) > ComputeReturn(entry.controller, entry.mgpr)
    /\ old_reward = ComputeReturn(controller, mgpr)

\* C19: restart_controller with restarts >= 1 on an instance whose
\* optimizer is still None fails in its first trial at the re-optimize
\* step, after every sub-model has been perturbed; nothing is restored, so
\* the call ends in error with the perturbed parameters live: every
\* sub-model holds a result of the trial's strategy applied to its value at
\* entry, which differs from the snapshot taken at entry unless the draw hits
\* the entry value itself; and no trial is ever evaluated or decided.
C19_RestartBeforeOptimizeFails ==
    /\ r_pc = "error" =>
          /\ optimizer = None
          /\ restarts >= 1 /\ r = 0 /\ trials_done = 0
          /\ Len(applied) = Len(controller)
          /\ opt_calls = 0 /\ eval_calls = 0
          /\ values = entry
          /\ \A i \in 1..Len(controller) :
                ResultOf(ClaimedStrategy(select), controller[i], entry.controller[i])
          /\ (\E i \in 1..Len(controller) :
                 ~ResultOf(ClaimedStrategy(select), entry.controller[i],
                           entry.controller[i])) => Live # entry
    /\ optimizer = None => r_pc \notin {"evaluate", "decide", "decided"}
    /\ (optimizer = None /\ r_pc = "return") => restarts = 0

C19_Witness ==
    /\ r_pc = "error"
    /\ optimizer = None
    /\ ncalls = 2
    /\ applied = <<"C">>
    /\ controller # entry.controller
    /\ entry.controller # InitController
    /\ values = entry

====
